---- MODULE Spec2Model ----
(***************************************************************************)
(* Optimistic mutation protocol of the Expensify client.                   *)
(*                                                                         *)
(*   - Card actions (src/src/libs/actions/Card.ts): three mutations        *)
(*     dispatched through API.write, and clearCardListErrors.              *)
(*   - Message edit drafts                                                 *)
(*     (src/src/pages/home/report/ReportActionItemMessageEdit.js): the     *)
(*     debounced draft persistence, deleteDraft and publishDraft.          *)
(*   - revealVirtualCardDetails (Card.ts): the promise around the request. *)
(*   - The more features page                                              *)
(*     (src/src/pages/workspace/WorkspaceMoreFeaturesPage.tsx).            *)
(*   - The distance-edit page (src/unnamed/part_001).                      *)
(*   - The web MapView (src/modules/react-native-wallet/ios/RNWallet.m,    *)
(*     from line 85).                                                      *)
(*                                                                         *)
(* Each subsystem has its own specification (CardSpec, DraftSpec,          *)
(* ComposerSpec, RevealSpec, PolicySpec, EditSpec, MapSpec); the variables *)
(* of the other subsystems stay at their initial values.                   *)
(***************************************************************************)
EXTENDS Integers, Sequences, FiniteSets, TLC

VARIABLES
    store,      \* Onyx: key -> JSON value (the card forms and the card list)
    requests,   \* every request handed to API.write, in dispatch order
    log,        \* every patch applied through API.write: (request, phase, key)
    draft,                  \* useState draft: the text in the edit composer
    pending,                \* the mounted instance's debounced save, or None
    orphans,                \* debounce timers of unmounted instances, oldest first
    draftMessage,           \* Onyx: the persisted draft of the report action
    html,                   \* Onyx: action.message[0].html
    messageDeleted,         \* the report action was deleted
    mounted,                \* a ReportActionItemMessageEdit instance is mounted
    isFocused,              \* useState isFocused (and isFocusedRef)
    shouldShowComposeInput, \* Onyx: the main composer is shown
    deleteModal,            \* the delete confirmation modal is open
    calls,                  \* the calls of the last handler, when it edits, saves,
                            \* discards or publishes the draft; else empty
    reveals,    \* the promises returned by revealVirtualCardDetails, in call order
    policy,                      \* Onyx: the policy of WorkspaceMoreFeaturesPage
    policyRequests,              \* the requests of the policy's feature mutations
    isOrganizeWarningModalOpen,  \* useState isOrganizeWarningModalOpen
    isIntegrateWarningModalOpen, \* useState isIntegrateWarningModalOpen
    transactions,           \* Onyx: the transaction collection, ID -> waypoints
    transactionID,          \* the transactionID prop of EditRequestDistancePage
    transactionToEdit,      \* the temporary transaction of the last render
    iouTransactionID,       \* Onyx: the ID set by IOU.setDistanceRequestTransactionID
    temporaries,            \* the temporary transactions created so far
    distanceUpdates,        \* the calls of IOU.updateDistanceRequest, in order
    mapView                 \* the state, props and pending callbacks of one MapView

cardVars == <<store, requests, log>>
draftVars == <<draft, pending, orphans, draftMessage, html, messageDeleted, mounted,
               isFocused, shouldShowComposeInput, deleteModal, calls>>
revealVars == <<reveals>>
policyVars == <<policy, policyRequests, isOrganizeWarningModalOpen,
                isIntegrateWarningModalOpen>>
\* What the Card mutations leave alone, what the message edit leaves alone, and so
\* on for revealVirtualCardDetails and the more features page.
editVars == <<transactions, transactionID, transactionToEdit, iouTransactionID,
              temporaries, distanceUpdates>>
mapVars == <<mapView>>
nonCardVars == <<draftVars, revealVars, policyVars, editVars, mapVars>>
nonDraftVars == <<cardVars, revealVars, policyVars, editVars, mapVars>>
nonRevealVars == <<cardVars, draftVars, policyVars, editVars, mapVars>>
nonPolicyVars == <<cardVars, draftVars, revealVars, editVars, mapVars>>
nonEditVars == <<cardVars, draftVars, revealVars, policyVars, mapVars>>
nonMapVars == <<cardVars, draftVars, revealVars, policyVars, editVars>>
vars == <<store, requests, log, draft, pending, orphans, draftMessage, html,
          messageDeleted, mounted, isFocused, shouldShowComposeInput, deleteModal, calls,
          reveals, policy, policyRequests, isOrganizeWarningModalOpen,
          isIntegrateWarningModalOpen, transactions, transactionID, transactionToEdit,
          iouTransactionID, temporaries, distanceUpdates, mapView>>

\* ---------------------------------------------------------------- bounds

\* Requests dispatched through API.write in one behaviour.
MaxRequests == 2

\* The longest text typed into the edit composer.
MaxDraftLen == 2

\* CONST.MAX_COMMENT_LENGTH, scaled down to the texts of the model.
MAX_COMMENT_LENGTH == 4

\* Debounce timers of unmounted edit components that are pending at one time.
MaxOrphans == 1

\* Calls of revealVirtualCardDetails in one behaviour.
MaxReveals == 2

\* Feature mutations of the policy dispatched in one behaviour.
MaxPolicyRequests == 2

\* Temporary transactions created by EditRequestDistancePage in one behaviour.
MaxTemporaries == 3

\* Calls of IOU.updateDistanceRequest in one behaviour.
MaxDistanceUpdates == 2

\* The most waypoints handed to the MapView.
MaxWaypoints == 2

\* Callbacks of the center button's fade-out that are pending at one time.
MaxFadeCallbacks == 2

\* ------------------------------------------------------------ JSON values

\* A JSON value is tagged: null, a boolean, a string, or an object (a function
\* from string keys to JSON values).
Null == [t |-> "null"]
Bool(b) == [t |-> "bool", b |-> b]
Str(s) == [t |-> "str", s |-> s]
Num(n) == [t |-> "num", n |-> n]
Obj(f) == [t |-> "obj", o |-> f]
EmptyObj == Obj([k \in {} |-> Null])

RECURSIVE RemoveNulls(_)
\* A merged-in value keeps no null member: null marks a key to remove.
RemoveNulls(v) ==
    IF v.t = "obj"
    THEN Obj([k \in {x \in DOMAIN v.o : v.o[x] # Null} |-> RemoveNulls(v.o[k])])
    ELSE v

RECURSIVE ToggleMerge(_, _)
\* A merge that applies a boolean as a delta (flips the stored boolean) instead of
\* overwriting it.
ToggleMerge(old, new) ==
    IF new.t = "obj" /\ old.t = "obj"
    THEN Obj([k \in (DOMAIN old.o \ {x \in DOMAIN new.o : new.o[x] = Null})
                    \cup {x \in DOMAIN new.o : new.o[x] # Null} |->
                IF k \in DOMAIN new.o
                THEN IF k \in DOMAIN old.o
                     THEN ToggleMerge(old.o[k], new.o[k])
                     ELSE RemoveNulls(new.o[k])
                ELSE old.o[k]])
    ELSE IF new.t = "bool" /\ old.t = "bool"
         THEN Bool(old.b # new.b)
         ELSE RemoveNulls(new)

\* A merge of the top level only: a member of the patch replaces the stored member
\* wholesale.
ShallowMerge(old, new) ==
    IF new.t = "obj" /\ old.t = "obj"
    THEN Obj([k \in (DOMAIN old.o \ {x \in DOMAIN new.o : new.o[x] = Null})
                    \cup {x \in DOMAIN new.o : new.o[x] # Null} |->
                IF k \in DOMAIN new.o THEN RemoveNulls(new.o[k]) ELSE old.o[k]])
    ELSE RemoveNulls(new)

RECURSIVE Merge(_, _)
\* Onyx.merge on one key: mapping keys are unioned, a null member removes the key,
\* scalars are overwritten.
Merge(old, new) ==
    IF new.t = "obj" /\ old.t = "obj"
    THEN Obj([k \in (DOMAIN old.o \ {x \in DOMAIN new.o : new.o[x] = Null})
                    \cup {x \in DOMAIN new.o : new.o[x] # Null} |->
                IF k \in DOMAIN new.o
                THEN IF k \in DOMAIN old.o
                     THEN Merge(old.o[k], new.o[k])
                     ELSE RemoveNulls(new.o[k])
                ELSE old.o[k]])
    ELSE RemoveNulls(new)

\* One Onyx update: merge into the key, or set it.
ApplyPatch(s, p) ==
    IF p.onyxMethod = "merge"
    THEN [s EXCEPT ![p.key] = Merge(@, p.value)]
    ELSE [s EXCEPT ![p.key] = RemoveNulls(p.value)]

RECURSIVE ApplyPatches(_, _)
\* Onyx.update: the patches of one batch, in call order.
ApplyPatches(s, ps) ==
    IF ps = <<>> THEN s ELSE ApplyPatches(ApplyPatch(s, Head(ps)), Tail(ps))

\* ------------------------------------------------------------- the store

REPORT_VIRTUAL_CARD_FRAUD == "reportVirtualCardFraudForm"
REPORT_PHYSICAL_CARD_FORM == "reportPhysicalCardForm"
CARD_LIST == "cardList"
StoreKeys == {REPORT_VIRTUAL_CARD_FRAUD, REPORT_PHYSICAL_CARD_FORM, CARD_LIST}

CardIDs == {"7", "8"}
\* The card that is reported as fraudulent or replaced.
ReportedCardIDs == {"7"}
Reasons == {"stolen"}
LastFourDigits == {"1234"}

SomeErrors == Obj([e1 |-> Str("failed")])
\* The stores a behaviour starts from: a fresh one (no form entry yet, cards as the
\* server sent them) and a used one (forms and cards hold the errors of an earlier
\* failed request).
FreshStore ==
    [k \in StoreKeys |->
        IF k = CARD_LIST
        THEN Obj([c \in CardIDs |-> Obj([state |-> Str("NOT_ACTIVATED")])])
        ELSE Null]
UsedStore ==
    [k \in StoreKeys |->
        IF k = CARD_LIST
        THEN Obj([c \in CardIDs |->
                    Obj([state |-> Str("NOT_ACTIVATED"), isLoading |-> Bool(FALSE),
                         errors |-> SomeErrors])])
        ELSE Obj([isLoading |-> Bool(FALSE), errors |-> SomeErrors])]
InitStores == {FreshStore, UsedStore}

\* ------------------------------------------------------------ API.write

Events(id, phase, ps) == [i \in 1..Len(ps) |-> [id |-> id, phase |-> phase, key |-> ps[i].key]]

\* API.write(command, params, onyxData): the optimistic patches are applied to the
\* store at once and the request is put on the queue.
API_write(command, params, onyxData) ==
    /\ Len(requests) < MaxRequests
    /\ store' = ApplyPatches(store, onyxData.optimisticData)
    /\ requests' = Append(requests, [command |-> command, params |-> params,
                                     onyxData |-> onyxData, status |-> "queued",
                                     outcome |-> "none"])
    /\ log' = log \o Events(Len(requests) + 1, "optimistic", onyxData.optimisticData)
    /\ UNCHANGED nonCardVars

\* A queue that takes the newest unfinished request first.
NewestRequest == CHOOSE i \in 1..Len(requests) :
    /\ requests[i].status # "done"
    /\ \A j \in (i + 1)..Len(requests) : requests[j].status = "done"

\* The oldest request that is not finished: the queue is sequential.
HeadRequest == CHOOSE i \in 1..Len(requests) :
    /\ requests[i].status # "done"
    /\ \A j \in 1..(i - 1) : requests[j].status = "done"
HasHead == \E i \in 1..Len(requests) : requests[i].status # "done"

\* The Command Queue resolves the oldest queued request, with success or failure.
QueueResolve(outcome) ==
    /\ HasHead
    /\ requests[HeadRequest].status = "queued"
    /\ requests' = [requests EXCEPT ![HeadRequest].status = "resolved",
                                    ![HeadRequest].outcome = outcome]
    /\ UNCHANGED <<store, log>>
    /\ UNCHANGED nonCardVars

\* The patch set of a resolved request: successData on success, else failureData.
ResolutionData(r) ==
    IF r.outcome = "success" THEN r.onyxData.successData ELSE r.onyxData.failureData

\* The resolved request's patch set is applied.
ApplyResolution ==
    /\ HasHead
    /\ requests[HeadRequest].status = "resolved"
    /\ LET r == requests[HeadRequest] IN
        /\ store' = ApplyPatches(store, ResolutionData(r))
        /\ log' = log \o Events(HeadRequest, r.outcome, ResolutionData(r))
    /\ requests' = [requests EXCEPT ![HeadRequest].status = "done"]
    /\ UNCHANGED nonCardVars

\* -------------------------------------------------------------- Card.ts

MergePatch(key, value) == [onyxMethod |-> "merge", key |-> key, value |-> value]

ReportVirtualExpensifyCardFraudData ==
    [optimisticData |-> <<MergePatch(REPORT_VIRTUAL_CARD_FRAUD, Obj([isLoading |-> Bool(TRUE)]))>>,
     successData |-> <<MergePatch(REPORT_VIRTUAL_CARD_FRAUD, Obj([isLoading |-> Bool(FALSE)]))>>,
     failureData |-> <<MergePatch(REPORT_VIRTUAL_CARD_FRAUD, Obj([isLoading |-> Bool(FALSE)]))>>]

reportVirtualExpensifyCardFraud(cardID) ==
    API_write("ReportVirtualExpensifyCardFraud", [cardID |-> cardID],
              ReportVirtualExpensifyCardFraudData)

RequestReplacementExpensifyCardData ==
    [optimisticData |-> <<MergePatch(REPORT_PHYSICAL_CARD_FORM,
                                     Obj([isLoading |-> Bool(TRUE), errors |-> Null]))>>,
     successData |-> <<MergePatch(REPORT_PHYSICAL_CARD_FORM, Obj([isLoading |-> Bool(FALSE)]))>>,
     failureData |-> <<MergePatch(REPORT_PHYSICAL_CARD_FORM, Obj([isLoading |-> Bool(FALSE)]))>>]

\* The replacement request written without its optimisticData: the loading state is
\* only set by the resolution patches.
requestReplacementWithoutOptimisticData(cardId, reason) ==
    API_write("RequestReplacementExpensifyCard", [cardId |-> cardId, reason |-> reason],
              [RequestReplacementExpensifyCardData EXCEPT !.optimisticData = <<>>])

\* The replacement request whose failureData is a merge into the card's entry of
\* the card list instead of the form.
requestReplacementFailureOnCardList(cardId, reason) ==
    API_write("RequestReplacementExpensifyCard", [cardId |-> cardId, reason |-> reason],
              [RequestReplacementExpensifyCardData EXCEPT !.failureData =
                    <<MergePatch(CARD_LIST,
                                 Obj([c \in {cardId} |-> Obj([isLoading |-> Bool(FALSE)])]))>>])

requestReplacementExpensifyCard(cardId, reason) ==
    API_write("RequestReplacementExpensifyCard", [cardId |-> cardId, reason |-> reason],
              RequestReplacementExpensifyCardData)

CardEntry(cardID, entry) == Obj([c \in {cardID} |-> entry])

ActivatePhysicalExpensifyCardData(cardID) ==
    [optimisticData |-> <<MergePatch(CARD_LIST,
                            CardEntry(cardID, Obj([errors |-> Null, isLoading |-> Bool(TRUE)])))>>,
     successData |-> <<MergePatch(CARD_LIST, CardEntry(cardID, Obj([isLoading |-> Bool(FALSE)])))>>,
     failureData |-> <<MergePatch(CARD_LIST, CardEntry(cardID, Obj([isLoading |-> Bool(FALSE)])))>>]

\* The activation written without its failureData.
activateWithoutFailureData(cardLastFourDigits, cardID) ==
    API_write("ActivatePhysicalExpensifyCard",
              [cardLastFourDigits |-> cardLastFourDigits, cardID |-> cardID],
              [ActivatePhysicalExpensifyCardData(cardID) EXCEPT !.failureData = <<>>])

activatePhysicalExpensifyCard(cardLastFourDigits, cardID) ==
    API_write("ActivatePhysicalExpensifyCard",
              [cardLastFourDigits |-> cardLastFourDigits, cardID |-> cardID],
              ActivatePhysicalExpensifyCardData(cardID))

clearCardListErrors(cardID) ==
    /\ store' = [store EXCEPT ![CARD_LIST] =
                    Merge(@, CardEntry(cardID, Obj([errors |-> Null, isLoading |-> Bool(FALSE)])))]
    /\ UNCHANGED <<requests, log>>
    /\ UNCHANGED nonCardVars


\* ------------------------------------------------------------------ texts

\* A text is a sequence of characters. The user types blanks and "<", the character
\* _.escape rewrites.
Chars == {" ", "<"}
Texts == UNION {[1..n -> Chars] : n \in 0..MaxDraftLen}

EscapeChar(c) == IF c = "<" THEN <<"&", "l", "t", ";">> ELSE <<c>>

RECURSIVE Escape(_)
\* _.escape: every "<" becomes the entity "&lt;".
Escape(s) == IF s = <<>> THEN <<>> ELSE EscapeChar(Head(s)) \o Escape(Tail(s))

RECURSIVE HtmlDecode(_)
\* Str.htmlDecode: every entity "&lt;" becomes "<".
HtmlDecode(s) ==
    IF s = <<>> THEN <<>>
    ELSE IF Len(s) >= 4 /\ SubSeq(s, 1, 4) = <<"&", "l", "t", ";">>
         THEN <<"<">> \o HtmlDecode(SubSeq(s, 5, Len(s)))
         ELSE <<Head(s)>> \o HtmlDecode(Tail(s))

RECURSIVE TrimStart(_)
TrimStart(s) == IF s # <<>> /\ Head(s) = " " THEN TrimStart(Tail(s)) ELSE s

RECURSIVE TrimEnd(_)
TrimEnd(s) ==
    IF s # <<>> /\ s[Len(s)] = " " THEN TrimEnd(SubSeq(s, 1, Len(s) - 1)) ELSE s

\* String.prototype.trim
Trim(s) == TrimEnd(TrimStart(s))

\* ExpensiMark.htmlToMarkdown, on a message that is plain text: the entities are
\* decoded.
HtmlToMarkdown(h) == HtmlDecode(h)

\* ExpensiMark.replace, on plain text: the text is escaped to HTML.
ParseMarkdown(text) == Escape(text)

\* ReportUtils.getCommentLength: the length of the parsed comment, trimmed.
GetCommentLength(text) == Len(Trim(ParseMarkdown(text)))

\* EmojiUtils.replaceEmojis: the texts of the model hold no emoji short code, and
\* such a text comes back as it is, with no emoji found.
ReplaceEmojis(text) == [text |-> text, emojis |-> <<>>]

\* ------------------------------------------- ReportActionItemMessageEdit.js

\* The debounced save of a component: none pending, or one with the content to save.
None == <<>>
Scheduled(content) == <<content>>

Call(f, arg) == [f |-> f, arg |-> arg]
HasCall(cs, f) == \E k \in 1..Len(cs) : cs[k].f = f
CallsOf(cs, f) == SelectSeq(cs, LAMBDA c : c.f = f)

\* The message of the report action when the behaviour starts: the text "a".
InitHtml == ParseMarkdown(<<"a">>)

\* The context menu's Edit: the draft is created with the message's HTML.
StartEdit ==
    /\ ~messageDeleted
    /\ draftMessage = <<>>
    /\ draftMessage' = html
    /\ calls' = <<>>
    /\ UNCHANGED <<draft, pending, orphans, html, messageDeleted, mounted, isFocused,
                   shouldShowComposeInput, deleteModal>>
    /\ UNCHANGED nonDraftVars

\* The component is rendered while the persisted draft is not empty. useState's
\* initial draft: the message as markdown when the draft is the message itself,
\* else the decoded draft.
Mount ==
    /\ ~mounted
    /\ ~messageDeleted
    /\ draftMessage # <<>>
    /\ mounted' = TRUE
    /\ draft' = IF draftMessage = html
                THEN Trim(HtmlToMarkdown(draftMessage))
                ELSE HtmlDecode(draftMessage)
    /\ pending' = None
    /\ isFocused' = FALSE
    /\ calls' = <<>>
    /\ UNCHANGED <<orphans, draftMessage, html, messageDeleted, shouldShowComposeInput,
                   deleteModal>>
    /\ UNCHANGED nonDraftVars

\* The debounce drops the save that was scheduled, if any, when it is called again.
Reschedule(scheduled) ==
    IF scheduled # None THEN <<Call("clearTimeout", <<>>)>> ELSE <<>>

\* What updateDraft would hand to debouncedSaveDraft without its branch for a draft
\* that is empty after trimming.
SavedDraftUnguarded(newDraft) == Escape(newDraft)

\* What updateDraft would hand to debouncedSaveDraft if a draft that is empty after
\* trimming were saved as the empty string.
SavedDraftEmptyWhenBlank(newDraft) ==
    IF Len(Trim(newDraft)) > 0 THEN Escape(newDraft) ELSE <<>>

\* What updateDraft hands to debouncedSaveDraft.
SavedDraft(newDraft) ==
    IF Len(Trim(newDraft)) > 0 THEN Escape(newDraft) ELSE html

\* updateDraft with a debounce that keeps the arguments of its first call.
UpdateDraftKeepsFirst(newDraftInput) ==
    /\ mounted
    /\ ~deleteModal
    /\ LET newDraft == ReplaceEmojis(newDraftInput).text IN
        /\ draft' = newDraft
        /\ pending' = IF pending # None THEN pending ELSE Scheduled(SavedDraft(newDraft))
    /\ calls' = <<Call("updateDraft", newDraftInput)>> \o Reschedule(pending)
    /\ UNCHANGED <<orphans, draftMessage, html, messageDeleted, mounted, isFocused,
                   shouldShowComposeInput, deleteModal>>
    /\ UNCHANGED nonDraftVars

\* onChangeText: the draft is set and its save is (re)scheduled; a draft that is
\* empty after trimming schedules the message's HTML instead.
UpdateDraft(newDraftInput) ==
    /\ mounted
    /\ ~deleteModal
    /\ LET newDraft == ReplaceEmojis(newDraftInput).text IN
        /\ draft' = newDraft
        /\ pending' = Scheduled(SavedDraft(newDraft))
    /\ calls' = <<Call("updateDraft", newDraftInput)>> \o Reschedule(pending)
    /\ UNCHANGED <<orphans, draftMessage, html, messageDeleted, mounted, isFocused,
                   shouldShowComposeInput, deleteModal>>
    /\ UNCHANGED nonDraftVars

\* A debounce timer fires, the oldest first: the timers of unmounted components were
\* all scheduled before the mounted component's.
DebounceTimerFires ==
    /\ orphans # <<>> \/ pending # None
    /\ IF orphans # <<>>
       THEN /\ draftMessage' = Head(orphans)
            /\ orphans' = Tail(orphans)
            /\ pending' = pending
            /\ calls' = <<Call("debouncedSaveDraft", <<>>),
                          Call("saveReportActionDraft", Head(orphans))>>
       ELSE /\ draftMessage' = pending[1]
            /\ orphans' = orphans
            /\ pending' = None
            /\ calls' = <<Call("debouncedSaveDraft", <<>>),
                          Call("saveReportActionDraft", pending[1])>>
    /\ UNCHANGED <<draft, html, messageDeleted, mounted, isFocused,
                   shouldShowComposeInput, deleteModal>>
    /\ UNCHANGED nonDraftVars

\* An unmount whose cleanup shows the main composer without the check of
\* isFocusedRef.
UnmountAlwaysShows ==
    /\ mounted
    /\ ~deleteModal
    /\ pending # None => Len(orphans) < MaxOrphans
    /\ mounted' = FALSE
    /\ draft' = <<>>
    /\ orphans' = IF pending # None THEN Append(orphans, pending[1]) ELSE orphans
    /\ pending' = None
    /\ shouldShowComposeInput' = TRUE
    /\ isFocused' = FALSE
    /\ calls' = <<>>
    /\ UNCHANGED <<draftMessage, html, messageDeleted, deleteModal>>
    /\ UNCHANGED nonDraftVars

\* The component is unmounted (the user leaves the report, the list drops the row).
\* The effect's cleanup shows the main composer if the edit was focused; the
\* debounce timer is not cancelled.
Unmount ==
    /\ mounted
    /\ ~deleteModal
    /\ pending # None => Len(orphans) < MaxOrphans
    /\ mounted' = FALSE
    /\ draft' = <<>>
    /\ orphans' = IF pending # None THEN Append(orphans, pending[1]) ELSE orphans
    /\ pending' = None
    /\ shouldShowComposeInput' = IF isFocused THEN TRUE ELSE shouldShowComposeInput
    /\ isFocused' = FALSE
    /\ calls' = <<>>
    /\ UNCHANGED <<draftMessage, html, messageDeleted, deleteModal>>
    /\ UNCHANGED nonDraftVars

\* The body of deleteDraft, after the calls in prefix and with the save that is
\* scheduled when it runs: the debounce is cancelled, the
\* draft is saved as empty, the main composer is shown and focused. With the draft
\* empty the component is no longer rendered.
DeleteDraftBody(prefix, scheduled) ==
    /\ pending' = None
    /\ orphans' = orphans
    /\ draftMessage' = <<>>
    /\ shouldShowComposeInput' = TRUE
    /\ isFocused' = FALSE
    /\ mounted' = FALSE
    /\ draft' = <<>>
    /\ calls' = prefix \o <<Call("cancel", scheduled), Call("saveReportActionDraft", <<>>),
                          Call("setShouldShowComposeInput", <<>>), Call("focus", <<>>)>>

\* deleteDraft that neither cancels the debounce nor empties the saved draft.
DeleteDraftKeepsDraft ==
    /\ mounted
    /\ ~deleteModal
    /\ shouldShowComposeInput' = TRUE
    /\ isFocused' = FALSE
    /\ calls' = <<Call("deleteDraft", draft)>>
    /\ UNCHANGED <<draft, pending, orphans, draftMessage, mounted, html, messageDeleted,
                   deleteModal>>
    /\ UNCHANGED nonDraftVars

\* The cancel button, or Escape.
DeleteDraft ==
    /\ mounted
    /\ ~deleteModal
    /\ DeleteDraftBody(<<Call("deleteDraft", draft)>>, pending)
    /\ UNCHANGED <<html, messageDeleted, deleteModal>>
    /\ UNCHANGED nonDraftVars

\* publishDraft's three outcomes, given whether the length check and the check for
\* an empty draft are made and the text handed to editReportComment.
PublishDraftWith(checksLength, checksEmpty, text, flushes) ==
    /\ mounted
    /\ ~deleteModal
    /\ IF checksLength /\ GetCommentLength(draft) > MAX_COMMENT_LENGTH
       THEN /\ calls' = <<Call("publishDraft", draft)>>
            /\ UNCHANGED <<draft, pending, orphans, draftMessage, html, messageDeleted,
                           mounted, isFocused, shouldShowComposeInput, deleteModal>>
       ELSE IF checksEmpty /\ Trim(draft) = <<>>
       THEN /\ pending' = None
            /\ deleteModal' = TRUE
            /\ calls' = <<Call("publishDraft", draft), Call("cancel", pending),
                          Call("showDeleteModal", <<>>)>>
            /\ UNCHANGED <<draft, orphans, draftMessage, html, messageDeleted, mounted,
                           isFocused, shouldShowComposeInput>>
       ELSE /\ html' = ParseMarkdown(text)
            /\ DeleteDraftBody(
                <<Call("publishDraft", draft)>>
                \o (IF flushes /\ pending # None
                    THEN <<Call("flush", <<>>), Call("saveReportActionDraft", pending[1])>>
                    ELSE <<Call("cancel", pending)>>)
                \o <<Call("editReportComment", text)>>,
                None)
            /\ UNCHANGED <<messageDeleted, deleteModal>>
    /\ UNCHANGED nonDraftVars

\* publishDraft without the check of the comment length.
PublishDraftNoLengthCheck == PublishDraftWith(FALSE, TRUE, Trim(draft), FALSE)
\* publishDraft without the check for an empty draft.
PublishDraftNoEmptyCheck == PublishDraftWith(TRUE, FALSE, Trim(draft), FALSE)
\* publishDraft that hands the untrimmed draft to editReportComment.
PublishDraftUntrimmed == PublishDraftWith(TRUE, TRUE, draft, FALSE)
\* publishDraft that flushes the debounced save instead of cancelling it.
PublishDraftFlushes == PublishDraftWith(TRUE, TRUE, Trim(draft), TRUE)

\* The save button, or Enter.
PublishDraft == PublishDraftWith(TRUE, TRUE, Trim(draft), FALSE)

\* The delete modal is confirmed: the comment is deleted, then onConfirm (deleteDraft)
\* runs.
ConfirmDeleteModal ==
    /\ deleteModal
    /\ messageDeleted' = TRUE
    /\ deleteModal' = FALSE
    /\ DeleteDraftBody(<<Call("confirmDelete", draft), Call("deleteReportComment", <<>>)>>,
                       pending)
    /\ UNCHANGED html
    /\ UNCHANGED nonDraftVars

\* onFocus that leaves the main composer as it is.
FocusKeepsComposeInput ==
    /\ mounted
    /\ ~deleteModal
    /\ ~isFocused
    /\ isFocused' = TRUE
    /\ calls' = <<>>
    /\ UNCHANGED <<draft, pending, orphans, draftMessage, html, messageDeleted, mounted,
                   shouldShowComposeInput, deleteModal>>
    /\ UNCHANGED nonDraftVars

\* The edit composer's onFocus.
Focus ==
    /\ mounted
    /\ ~deleteModal
    /\ ~isFocused
    /\ isFocused' = TRUE
    /\ shouldShowComposeInput' = FALSE
    /\ calls' = <<>>
    /\ UNCHANGED <<draft, pending, orphans, draftMessage, html, messageDeleted, mounted,
                   deleteModal>>
    /\ UNCHANGED nonDraftVars

\* The delete modal is dismissed: onCancel focuses the edit composer again.
CancelDeleteModal ==
    /\ deleteModal
    /\ deleteModal' = FALSE
    /\ isFocused' = TRUE
    /\ shouldShowComposeInput' = FALSE
    /\ calls' = <<>>
    /\ UNCHANGED <<draft, pending, orphans, draftMessage, html, messageDeleted, mounted>>
    /\ UNCHANGED nonDraftVars

saveButtonID == "saveButton"
cancelButtonID == "cancelButton"
emojiButtonID == "emojiButton"
messageEditInput == "messageEditInput"
RelatedTargets == {saveButtonID, cancelButtonID, emojiButtonID, messageEditInput, "other"}

\* The edit composer's onBlur: the main composer is shown again unless the focus
\* went to one of the edit's own buttons or to another edit composer.
Blur(relatedTargetId) ==
    /\ mounted
    /\ isFocused
    /\ isFocused' = FALSE
    /\ shouldShowComposeInput' =
        IF relatedTargetId \in {saveButtonID, cancelButtonID, emojiButtonID, messageEditInput}
        THEN shouldShowComposeInput
        ELSE TRUE
    /\ calls' = <<>>
    /\ UNCHANGED <<draft, pending, orphans, draftMessage, html, messageDeleted, mounted,
                   deleteModal>>
    /\ UNCHANGED nonDraftVars

\* ------------------------------------------- Card.ts: revealVirtualCardDetails

\* CONST.JSON_CODE.SUCCESS
SUCCESS == 200
\* The jsonCode of a response: success, or one of two codes of a refused request.
JsonCodes == {SUCCESS, 404, 666}

\* The card details a response carries.
CardDetails == {"pan 1", "pan 2"}
\* What API.makeRequestWithSideEffects resolves with: a response with or without a
\* jsonCode, or nothing.
Responses ==
    {[kind |-> "response", jsonCode |-> c, details |-> d] : c \in JsonCodes, d \in CardDetails}
        \cup {[kind |-> "response", details |-> d] : d \in CardDetails}
        \cup {[kind |-> "undefined"]}

\* response?.jsonCode
JsonCodeOf(response) ==
    IF response.kind = "response" /\ "jsonCode" \in DOMAIN response
    THEN response.jsonCode
    ELSE -1

\* Localize.translateLocal('cardPage.cardDetailsLoadingFailure')
CardDetailsLoadingFailure == [kind |-> "error", message |-> "cardPage.cardDetailsLoadingFailure"]

\* A new promise: the request of the executor is in flight.
NewPromise(cardID) ==
    [cardID |-> cardID, request |-> "inflight", status |-> "pending",
     value |-> [kind |-> "none"], settles |-> 0]

\* resolve and reject of a promise: the first call settles it, a later one is
\* counted and has no effect.
Settle(p, status, value) ==
    IF p.status = "pending"
    THEN [p EXCEPT !.status = status, !.value = value, !.settles = @ + 1]
    ELSE [p EXCEPT !.settles = @ + 1]
Resolve(p, value) == Settle(p, "fulfilled", value)
Reject(p, value) == Settle(p, "rejected", value)

\* revealVirtualCardDetails: the promise is created and the request is made, with no
\* store update handed to it.
revealVirtualCardDetails(cardID) ==
    /\ Len(reveals) < MaxReveals
    /\ reveals' = Append(reveals, NewPromise(cardID))
    /\ UNCHANGED nonRevealVars

\* The then handler without the check of the jsonCode.
RequestThenResolvesAny(i, response) ==
    /\ i \in 1..Len(reveals)
    /\ reveals[i].request = "inflight"
    /\ reveals' = [reveals EXCEPT
            ![i] = [Resolve(@, response) EXCEPT !.request = "done"]]
    /\ UNCHANGED nonRevealVars

\* The then handler that merges the card details of the response into the card
\* list before it settles the promise.
RequestThenPersists(i, response) ==
    /\ i \in 1..Len(reveals)
    /\ reveals[i].request = "inflight"
    /\ reveals' = [reveals EXCEPT
            ![i] = [(IF JsonCodeOf(response) # SUCCESS
                     THEN Reject(@, CardDetailsLoadingFailure)
                     ELSE Resolve(@, response)) EXCEPT !.request = "done"]]
    /\ store' = IF JsonCodeOf(response) = SUCCESS
                THEN [store EXCEPT ![CARD_LIST] =
                        Merge(@, Obj([c \in {reveals[i].cardID} |->
                                        Obj([details |-> Str(response.details)])]))]
                ELSE store
    /\ UNCHANGED <<requests, log, draftVars, policyVars, editVars, mapVars>>

\* The request's promise is fulfilled with a response: the then handler rejects
\* unless the jsonCode is SUCCESS, else resolves with the response.
RequestThen(i, response) ==
    /\ i \in 1..Len(reveals)
    /\ reveals[i].request = "inflight"
    /\ reveals' = [reveals EXCEPT
            ![i] = [(IF JsonCodeOf(response) # SUCCESS
                     THEN Reject(@, CardDetailsLoadingFailure)
                     ELSE Resolve(@, response)) EXCEPT !.request = "done"]]
    /\ UNCHANGED nonRevealVars

\* The request's promise is rejected: the catch handler rejects.
RequestCatch(i) ==
    /\ i \in 1..Len(reveals)
    /\ reveals[i].request = "inflight"
    /\ reveals' = [reveals EXCEPT
            ![i] = [Reject(@, CardDetailsLoadingFailure) EXCEPT !.request = "failed"]]
    /\ UNCHANGED nonRevealVars

\* ------------------------------------------- WorkspaceMoreFeaturesPage.tsx

\* The features of the page's items, by the policy field that holds their pending
\* action.
SpendFeatures == {"areDistanceRatesEnabled", "areWorkflowsEnabled"}
OrganizeFeatures == {"areCategoriesEnabled", "areTagsEnabled", "tax"}
IntegrateFeatures == {"areConnectionsEnabled"}
Features == SpendFeatures \cup OrganizeFeatures \cup IntegrateFeatures

\* The check without the test that policy.connections is not empty.
hasConnectionsEnabled == policy.isActive["areConnectionsEnabled"]

\* policy.areConnectionsEnabled && !isEmptyObject(policy.connections)
hasAccountingConnection == policy.isActive["areConnectionsEnabled"] /\ policy.connections

\* The policies the page opens on: no spend or organize feature enabled and nothing
\* pending, connections enabled or not, and with or without a connection set up.
InitPolicies ==
    {[isActive |-> [f \in Features |-> f \in IntegrateFeatures /\ e],
      pendingFields |-> [f \in Features |-> "none"],
      connections |-> c] : e \in BOOLEAN, c \in BOOLEAN}

\* A feature mutation (Policy.enablePolicyDistanceRates and the like): the optimistic
\* patch sets the feature and its pending action, and the request is put on the
\* queue.
EnablePolicyFeature(feature, isEnabled) ==
    /\ Len(policyRequests) < MaxPolicyRequests
    /\ policy' = [policy EXCEPT !.isActive[feature] = isEnabled,
                                !.pendingFields[feature] = "update"]
    /\ policyRequests' = Append(policyRequests,
            [feature |-> feature, isEnabled |-> isEnabled, status |-> "queued"])

\* The oldest queued request of the policy.
PolicyHead == CHOOSE i \in 1..Len(policyRequests) :
    /\ policyRequests[i].status = "queued"
    /\ \A j \in 1..(i - 1) : policyRequests[j].status # "queued"

\* The oldest queued request ends: its success patch clears the pending action of
\* its feature, its failure patch clears it and puts the feature back.
PolicyRequestEnds(outcome) ==
    /\ \E i \in 1..Len(policyRequests) : policyRequests[i].status = "queued"
    /\ LET r == policyRequests[PolicyHead] IN
        policy' = [policy EXCEPT
            !.pendingFields[r.feature] = "none",
            !.isActive[r.feature] = IF outcome = "failure" THEN ~r.isEnabled ELSE @]
    /\ policyRequests' = [policyRequests EXCEPT ![PolicyHead].status = outcome]
    /\ UNCHANGED <<isOrganizeWarningModalOpen, isIntegrateWarningModalOpen>>
    /\ UNCHANGED nonPolicyVars

\* The action of a spend item: the feature mutation is dispatched.
SpendItemAction(feature, isEnabled) ==
    /\ EnablePolicyFeature(feature, isEnabled)
    /\ UNCHANGED <<isOrganizeWarningModalOpen, isIntegrateWarningModalOpen>>
    /\ UNCHANGED nonPolicyVars

\* The action of an organize item: with an accounting connection the warning modal
\* is opened instead.
OrganizeItemAction(feature, isEnabled) ==
    /\ IF hasAccountingConnection
       THEN /\ isOrganizeWarningModalOpen' = TRUE
            /\ UNCHANGED <<policy, policyRequests>>
       ELSE /\ EnablePolicyFeature(feature, isEnabled)
            /\ UNCHANGED isOrganizeWarningModalOpen
    /\ UNCHANGED isIntegrateWarningModalOpen
    /\ UNCHANGED nonPolicyVars

\* The action of the integrate item.
IntegrateItemAction(feature, isEnabled) ==
    /\ IF hasAccountingConnection
       THEN /\ isIntegrateWarningModalOpen' = TRUE
            /\ UNCHANGED <<policy, policyRequests>>
       ELSE /\ EnablePolicyFeature(feature, isEnabled)
            /\ UNCHANGED isIntegrateWarningModalOpen
    /\ UNCHANGED isOrganizeWarningModalOpen
    /\ UNCHANGED nonPolicyVars

\* onConfirm and onCancel of the two warning modals: the modal is closed.
CloseOrganizeWarningModal ==
    /\ isOrganizeWarningModalOpen
    /\ isOrganizeWarningModalOpen' = FALSE
    /\ UNCHANGED <<policy, policyRequests, isIntegrateWarningModalOpen>>
    /\ UNCHANGED nonPolicyVars

CloseIntegrateWarningModal ==
    /\ isIntegrateWarningModalOpen
    /\ isIntegrateWarningModalOpen' = FALSE
    /\ UNCHANGED <<policy, policyRequests, isOrganizeWarningModalOpen>>
    /\ UNCHANGED nonPolicyVars

\* ------------------------------------------------ EditRequestDistancePage

\* Transaction IDs: the transactions of the collection, and the temporary ones made
\* by TransactionUtils.createTemporaryTransaction.
Original(n) == [temporary |-> FALSE, n |-> n]
Temporary(n) == [temporary |-> TRUE, n |-> n]
Originals == {Original(1), Original(2)}

\* The waypoints of a transaction, as one value.
Waypoints == {"w0", "w1", "w2"}

\* No page is open; no transaction is named.
NoTransaction == [temporary |-> FALSE, n |-> 0]

\* The collections the page can be opened on.
InitTransactions == [Originals -> Waypoints]

\* f with the key k removed.
Without(f, k) == [x \in DOMAIN f \ {k} |-> f[x]]

\* f with the key k set to v.
With(f, k, v) == [x \in DOMAIN f \cup {k} |-> IF x = k THEN v ELSE f[x]]

\* TransactionUtils.createTemporaryTransaction: a copy of the transaction is stored
\* under a new ID.
createTemporaryTransaction(coll, transaction) ==
    With(coll, Temporary(temporaries + 1), coll[transaction])

\* TransactionUtils.removeTemporaryTransaction.
removeTemporaryTransaction(coll, id) == Without(coll, id)

\* A page that saves under the ID of the temporary transaction.
SavedTemporaryID == transactionToEdit

\* The transaction the page hands to IOU.updateDistanceRequest: the original one.
SavedTransactionID == transactionID

\* The transaction the page hands to DistanceRequest: the temporary one.
EditedTransactionID == transactionToEdit

\* The page mounts on a transaction: the first render makes the temporary
\* transaction, the mount effect sets the distance request's transaction ID.
OpenEditRequestDistancePage(t) ==
    /\ transactionID = NoTransaction
    /\ temporaries < MaxTemporaries
    /\ t \in DOMAIN transactions
    /\ transactionID' = t
    /\ transactions' = createTemporaryTransaction(transactions, t)
    /\ transactionToEdit' = Temporary(temporaries + 1)
    /\ temporaries' = temporaries + 1
    /\ iouTransactionID' = t
    /\ UNCHANGED distanceUpdates
    /\ UNCHANGED nonEditVars

\* A render whose effect cleanup does not remove the temporary transaction of the
\* render before.
RerenderKeepsTemporary ==
    /\ transactionID # NoTransaction
    /\ temporaries < MaxTemporaries
    /\ transactions' = createTemporaryTransaction(transactions, transactionID)
    /\ transactionToEdit' = Temporary(temporaries + 1)
    /\ temporaries' = temporaries + 1
    /\ UNCHANGED <<transactionID, iouTransactionID, distanceUpdates>>
    /\ UNCHANGED nonEditVars

\* The page renders again: the render makes a new temporary transaction from the
\* transaction prop, and the effect's cleanup removes the one of the render before.
Rerender ==
    /\ transactionID # NoTransaction
    /\ temporaries < MaxTemporaries
    /\ transactions' = removeTemporaryTransaction(
            createTemporaryTransaction(transactions, transactionID), transactionToEdit)
    /\ transactionToEdit' = Temporary(temporaries + 1)
    /\ temporaries' = temporaries + 1
    /\ UNCHANGED <<transactionID, iouTransactionID, distanceUpdates>>
    /\ UNCHANGED nonEditVars

\* DistanceRequest edits the waypoints of the transaction named by its
\* transactionID prop.
EditWaypoints(w) ==
    /\ transactionID # NoTransaction
    /\ transactions' = [transactions EXCEPT ![EditedTransactionID] = w]
    /\ UNCHANGED <<transactionID, transactionToEdit, iouTransactionID, temporaries,
                   distanceUpdates>>
    /\ UNCHANGED nonEditVars

\* IOU.updateDistanceRequest: the optimistic patch puts the waypoints on the
\* transaction it is given.
updateDistanceRequest(id, waypoints) ==
    /\ transactions' = [transactions EXCEPT ![id] = waypoints]
    /\ distanceUpdates' = Append(distanceUpdates,
            [transactionID |-> id, waypoints |-> waypoints])

\* DistanceRequest submits the waypoints it shows: saveTransaction.
saveTransaction ==
    /\ transactionID # NoTransaction
    /\ Len(distanceUpdates) < MaxDistanceUpdates
    /\ updateDistanceRequest(SavedTransactionID, transactions[EditedTransactionID])
    /\ UNCHANGED <<transactionID, transactionToEdit, iouTransactionID, temporaries>>
    /\ UNCHANGED nonEditVars

\* The page is left (Navigation.goBack, or after the save): the unmount runs the
\* effect's cleanup, which removes the temporary transaction.
CloseEditRequestDistancePage ==
    /\ transactionID # NoTransaction
    /\ transactions' = removeTemporaryTransaction(transactions, transactionToEdit)
    /\ transactionID' = NoTransaction
    /\ transactionToEdit' = NoTransaction
    /\ UNCHANGED <<iouTransactionID, temporaries, distanceUpdates>>
    /\ UNCHANGED nonEditVars

\* ------------------------------------------------------------------ MapView

\* Coordinates: two places, and CONST.MAPBOX.DEFAULT_COORDINATE.
Coordinates == {"A", "B"}
DEFAULT_COORDINATE == "D"
\* No position: cachedUserLocation or currentPosition is undefined.
NoPosition == "none"

\* CONST.MAPBOX.DEFAULT_ZOOM and CONST.MAPBOX.SINGLE_MARKER_ZOOM.
DEFAULT_ZOOM == "DEFAULT_ZOOM"
SINGLE_MARKER_ZOOM == "SINGLE_MARKER_ZOOM"

\* The waypoints prop: the coordinates of up to MaxWaypoints waypoints.
WaypointLists == UNION {[1..n -> Coordinates] : n \in 0..MaxWaypoints}

\* mapRef.flyTo, and map.fitBounds on the waypoints.
FlyTo(center, zoom, animate) ==
    Call("flyTo", [center |-> center, zoom |-> zoom, animate |-> animate])
FitBounds(waypoints, animate) ==
    Call("fitBounds", [center |-> waypoints, zoom |-> "bounds", animate |-> animate])

\* The component after its first render, on a screen that is not focused yet: the
\* current position is the cached user location, the map has no reference yet.
NewMapView(isOffline, cachedUserLocation, initialState, waypoints) ==
    [isOffline |-> isOffline,
     isFocused |-> FALSE,
     cachedUserLocation |-> cachedUserLocation,
     initialState |-> initialState,
     waypoints |-> waypoints,
     shouldInitializeCurrentPosition |-> TRUE,
     currentPosition |-> cachedUserLocation,
     userInteractedWithMap |-> FALSE,
     mapRef |-> FALSE,
     shouldDisplayCenterButton |-> FALSE,
     centerButtonToggle |-> "none",   \* the last toggleCenterButton: "on" or "off"
     fadeCallbacks |-> 0,             \* callbacks of started fade-outs still to run
     locating |-> 0,                  \* getCurrentPosition requests without an answer
     initializations |-> 0,           \* runs of the current-position initialisation
     skippedOffline |-> FALSE,        \* the focus effect has returned for being offline
     calls |-> <<>>]                  \* the calls of the last handler and its effects

\* The check that reads only the waypoints.
shouldPanIgnoringDrag(m) == Len(m.waypoints) = 0

\* shouldPanMapToCurrentPosition
shouldPanMapToCurrentPosition(m) ==
    ~m.userInteractedWithMap /\ Len(m.waypoints) = 0

\* setCurrentPositionToInitialState
setCurrentPositionToInitialState(m) ==
    IF m.cachedUserLocation # NoPosition \/ ~m.initialState
    THEN m
    ELSE [m EXCEPT !.currentPosition = DEFAULT_COORDINATE,
                   !.calls = Append(@, Call("setCurrentPosition", DEFAULT_COORDINATE))]

\* toggleCenterButton. On: the button is displayed and the opacity is animated to 1.
\* Off: the opacity is animated to 0 with a callback that hides the button; withTiming
\* runs the callback when the animation ends, finished or cancelled by a later
\* assignment to the shared value, and the callback does not read its argument.
toggleCenterButton(m, toggleOn) ==
    IF toggleOn
    THEN [m EXCEPT !.shouldDisplayCenterButton = TRUE,
                   !.centerButtonToggle = "on"]
    ELSE [m EXCEPT !.centerButtonToggle = "off",
                   !.fadeCallbacks = @ + 1]

\* The focus effect that clears shouldInitializeCurrentPosition before it looks at
\* the network.
FocusEffectFlagFirst(m) ==
    IF ~m.shouldInitializeCurrentPosition THEN m
    ELSE IF m.isOffline THEN [m EXCEPT !.shouldInitializeCurrentPosition = FALSE,
                                       !.skippedOffline = TRUE]
    ELSE LET n == [m EXCEPT !.shouldInitializeCurrentPosition = FALSE,
                            !.initializations = @ + 1]
         IN IF ~shouldPanMapToCurrentPosition(n)
            THEN setCurrentPositionToInitialState(n)
            ELSE [n EXCEPT !.locating = @ + 1,
                           !.calls = Append(@, Call("getCurrentPosition", <<>>))]

\* The callback of useFocusEffect.
FocusEffect(m) ==
    IF m.isOffline THEN [m EXCEPT !.skippedOffline = TRUE]
    ELSE IF ~m.shouldInitializeCurrentPosition THEN m
    ELSE LET n == [m EXCEPT !.shouldInitializeCurrentPosition = FALSE,
                            !.initializations = @ + 1]
         IN IF ~shouldPanMapToCurrentPosition(n)
            THEN setCurrentPositionToInitialState(n)
            ELSE [n EXCEPT !.locating = @ + 1,
                           !.calls = Append(@, Call("getCurrentPosition", <<>>))]

\* The effect on currentPosition, userInteractedWithMap, mapRef and the waypoints:
\* the map flies to the current position.
FlyToEffect(m) ==
    IF m.currentPosition = NoPosition \/ ~m.mapRef THEN m
    ELSE IF ~shouldPanMapToCurrentPosition(m) THEN m
    ELSE [m EXCEPT !.calls = Append(@, FlyTo(m.currentPosition, DEFAULT_ZOOM, FALSE))]

\* resetBoundaries
resetBoundaries(m) ==
    IF Len(m.waypoints) = 0 THEN m
    ELSE IF ~m.mapRef THEN m
    ELSE IF Len(m.waypoints) = 1
    THEN [toggleCenterButton(m, m.currentPosition # m.waypoints[1]) EXCEPT
            !.calls = Append(@, FlyTo(m.waypoints[1], SINGLE_MARKER_ZOOM, FALSE))]
    ELSE [toggleCenterButton(m, FALSE) EXCEPT
            !.calls = Append(@, FitBounds(m.waypoints, FALSE))]

\* The Map is rendered, and hands its reference to setRef, while the device is
\* online and there is a current position (an access token is taken as given).
MapIsRendered(m) == ~m.isOffline /\ m.currentPosition # NoPosition

\* The values the fly-to effect and the resetBoundaries effect depend on.
FlyToDeps(m) == <<m.currentPosition, m.userInteractedWithMap, m.mapRef, m.waypoints>>
ResetBoundariesDeps(m) == <<m.waypoints, m.mapRef, m.currentPosition>>

\* The renders and effects that follow a change of the component from old to m: on
\* a focused screen the focus effect runs (its callback is new on every render),
\* the Map's reference follows the render, and the two other effects run when one
\* of their dependencies has changed.
Effects(old, m) ==
    LET a == IF m.isFocused THEN FocusEffect(m) ELSE m
        b == [a EXCEPT !.mapRef = MapIsRendered(a)]
        c == IF FlyToDeps(b) # FlyToDeps(old) THEN FlyToEffect(b) ELSE b
    IN IF ResetBoundariesDeps(b) # ResetBoundariesDeps(old) THEN resetBoundaries(c) ELSE c

\* The component when a handler starts: the calls are those of this handler.
Handling == [mapView EXCEPT !.calls = <<>>]

\* The component becomes m, its effects run.
MapBecomes(m) ==
    /\ Effects(mapView, m).fadeCallbacks <= MaxFadeCallbacks
    /\ mapView' = Effects(mapView, m)
    /\ UNCHANGED nonMapVars

\* The screen of the map gains or loses the focus.
ScreenFocus ==
    /\ ~mapView.isFocused
    /\ MapBecomes([Handling EXCEPT !.isFocused = TRUE])

ScreenBlur ==
    /\ mapView.isFocused
    /\ MapBecomes([Handling EXCEPT !.isFocused = FALSE])

\* useNetwork: the device goes offline or comes back online.
NetworkChange(isOffline) ==
    /\ isOffline # mapView.isOffline
    /\ MapBecomes([Handling EXCEPT !.isOffline = isOffline])

\* The waypoints prop changes.
SetWaypoints(waypoints) ==
    /\ waypoints # mapView.waypoints
    /\ MapBecomes([Handling EXCEPT !.waypoints = waypoints])

\* getCurrentPosition answers with a position: it becomes the current position and
\* setUserLocation stores it, which comes back as cachedUserLocation.
LocationSuccess(coords) ==
    /\ mapView.locating > 0
    /\ MapBecomes([Handling EXCEPT
            !.locating = @ - 1,
            !.currentPosition = coords,
            !.cachedUserLocation = coords,
            !.calls = <<Call("setCurrentPosition", coords), Call("setUserLocation", coords)>>])

\* getCurrentPosition fails: setCurrentPositionToInitialState.
LocationError ==
    /\ mapView.locating > 0
    /\ MapBecomes(setCurrentPositionToInitialState([Handling EXCEPT !.locating = @ - 1]))

\* The Map's onDrag.
onDrag ==
    /\ mapView.mapRef
    /\ MapBecomes([Handling EXCEPT !.userInteractedWithMap = TRUE])

\* The Map's onDragEnd, after a drag.
onDragEnd ==
    /\ mapView.mapRef
    /\ mapView.userInteractedWithMap
    /\ MapBecomes(toggleCenterButton(Handling, TRUE))

\* The center button is pressed: centerMap, with or without direction coordinates.
centerMap(hasDirections) ==
    /\ mapView.shouldDisplayCenterButton
    /\ MapIsRendered(mapView)
    /\ MapBecomes(
        IF ~mapView.mapRef THEN Handling
        ELSE IF hasDirections
        THEN toggleCenterButton(
                [Handling EXCEPT !.calls = <<FitBounds(mapView.waypoints, TRUE)>>], FALSE)
        ELSE toggleCenterButton(
                [Handling EXCEPT !.calls =
                    <<FlyTo(mapView.currentPosition, SINGLE_MARKER_ZOOM, TRUE)>>], FALSE))

\* The callback of a fade-out runs: the center button is no longer displayed.
FadeCallback ==
    /\ mapView.fadeCallbacks > 0
    /\ MapBecomes([Handling EXCEPT !.fadeCallbacks = @ - 1,
                                   !.shouldDisplayCenterButton = FALSE,
                                   !.calls = <<Call("setShouldDisplayCenterButton", FALSE)>>])

\* The map's container is resized: the observer resizes the map and forces
\* resetBoundaries.
Resize ==
    /\ mapView.mapRef
    /\ MapBecomes(resetBoundaries([Handling EXCEPT !.calls = <<Call("resize", <<>>)>>]))

\* ---------------------------------------------------------- specifications

DraftIdle ==
    /\ draft = <<>>
    /\ pending = None
    /\ orphans = <<>>
    /\ draftMessage = <<>>
    /\ html = <<>>
    /\ messageDeleted = FALSE
    /\ mounted = FALSE
    /\ isFocused = FALSE
    /\ shouldShowComposeInput = TRUE
    /\ deleteModal = FALSE
    /\ calls = <<>>

RevealIdle == reveals = <<>>

PolicyIdle ==
    /\ policy = [isActive |-> [f \in Features |-> FALSE],
                 pendingFields |-> [f \in Features |-> "none"],
                 connections |-> FALSE]
    /\ policyRequests = <<>>
    /\ isOrganizeWarningModalOpen = FALSE
    /\ isIntegrateWarningModalOpen = FALSE

EditIdle ==
    /\ transactions = [t \in Originals |-> "w0"]
    /\ transactionID = NoTransaction
    /\ transactionToEdit = NoTransaction
    /\ iouTransactionID = NoTransaction
    /\ temporaries = 0
    /\ distanceUpdates = <<>>

MapIdle == mapView = NewMapView(FALSE, NoPosition, TRUE, <<>>)

CardInit ==
    /\ store \in InitStores
    /\ requests = <<>>
    /\ log = <<>>
    /\ DraftIdle
    /\ RevealIdle
    /\ PolicyIdle
    /\ EditIdle
    /\ MapIdle

CardNext ==
    \/ \E c \in ReportedCardIDs : reportVirtualExpensifyCardFraud(c)
    \/ \E c \in ReportedCardIDs, r \in Reasons : requestReplacementExpensifyCard(c, r)
    \/ \E d \in LastFourDigits, c \in CardIDs : activatePhysicalExpensifyCard(d, c)
    \/ \E c \in CardIDs : clearCardListErrors(c)
    \/ \E o \in {"success", "failure"} : QueueResolve(o)
    \/ ApplyResolution

CardSpec == CardInit /\ [][CardNext]_vars

\* The resolved request's patches are applied in the turn after the queue resolves.
CardLiveSpec == CardSpec /\ WF_vars(ApplyResolution)

CardIdle ==
    /\ store = FreshStore
    /\ requests = <<>>
    /\ log = <<>>

DraftInit ==
    /\ draft = <<>>
    /\ pending = None
    /\ orphans = <<>>
    /\ draftMessage = <<>>
    /\ html = InitHtml
    /\ messageDeleted = FALSE
    /\ mounted = FALSE
    /\ isFocused = FALSE
    /\ shouldShowComposeInput = TRUE
    /\ deleteModal = FALSE
    /\ calls = <<>>
    /\ CardIdle
    /\ RevealIdle
    /\ PolicyIdle
    /\ EditIdle
    /\ MapIdle

\* The draft's operations: editing, the debounce timer, (un)mounting, discard and
\* publish, and the delete modal.
DraftNext ==
    \/ StartEdit
    \/ Mount
    \/ \E t \in Texts : UpdateDraft(t)
    \/ DebounceTimerFires
    \/ Unmount
    \/ DeleteDraft
    \/ PublishDraft
    \/ ConfirmDeleteModal
    \/ CancelDeleteModal

DraftSpec == DraftInit /\ [][DraftNext]_vars

\* The texts typed where the focus of the composers is followed: an empty one and one
\* that can be published.
ComposerTexts == {<<>>, <<"<">>}

\* The draft's operations together with the focus events of the edit composer.
ComposerNext ==
    \/ StartEdit
    \/ Mount
    \/ \E t \in ComposerTexts : UpdateDraft(t)
    \/ DebounceTimerFires
    \/ Unmount
    \/ DeleteDraft
    \/ PublishDraft
    \/ ConfirmDeleteModal
    \/ CancelDeleteModal
    \/ Focus
    \/ \E r \in RelatedTargets : Blur(r)

ComposerSpec == DraftInit /\ [][ComposerNext]_vars

RevealInit ==
    /\ store \in InitStores
    /\ requests = <<>>
    /\ log = <<>>
    /\ DraftIdle
    /\ RevealIdle
    /\ PolicyIdle
    /\ EditIdle
    /\ MapIdle

\* The calls of revealVirtualCardDetails and the outcomes of their requests.
RevealNext ==
    \/ \E c \in CardIDs : revealVirtualCardDetails(c)
    \/ \E i \in 1..MaxReveals, r \in Responses : RequestThen(i, r)
    \/ \E i \in 1..MaxReveals : RequestCatch(i)

RevealSpec == RevealInit /\ [][RevealNext]_vars

PolicyInit ==
    /\ policy \in InitPolicies
    /\ policyRequests = <<>>
    /\ isOrganizeWarningModalOpen = FALSE
    /\ isIntegrateWarningModalOpen = FALSE
    /\ CardIdle
    /\ DraftIdle
    /\ RevealIdle
    /\ EditIdle
    /\ MapIdle

\* The toggles of the more features page, its warning modals, and the outcomes of
\* the feature mutations.
PolicyNext ==
    \/ \E f \in SpendFeatures, e \in BOOLEAN : SpendItemAction(f, e)
    \/ \E f \in OrganizeFeatures, e \in BOOLEAN : OrganizeItemAction(f, e)
    \/ \E f \in IntegrateFeatures, e \in BOOLEAN : IntegrateItemAction(f, e)
    \/ CloseOrganizeWarningModal
    \/ CloseIntegrateWarningModal
    \/ \E o \in {"success", "failure"} : PolicyRequestEnds(o)

PolicySpec == PolicyInit /\ [][PolicyNext]_vars

EditInit ==
    /\ transactions \in InitTransactions
    /\ transactionID = NoTransaction
    /\ transactionToEdit = NoTransaction
    /\ iouTransactionID = NoTransaction
    /\ temporaries = 0
    /\ distanceUpdates = <<>>
    /\ CardIdle
    /\ DraftIdle
    /\ RevealIdle
    /\ PolicyIdle
    /\ MapIdle

\* The distance-edit page: it opens, renders again, edits, saves, and closes.
EditNext ==
    \/ \E t \in Originals : OpenEditRequestDistancePage(t)
    \/ Rerender
    \/ \E w \in Waypoints : EditWaypoints(w)
    \/ saveTransaction
    \/ CloseEditRequestDistancePage

EditSpec == EditInit /\ [][EditNext]_vars

\* The component is mounted, online or offline, with or without a cached user
\* location and an initial state, on any waypoints; the effects of the mount run.
MapInit ==
    /\ \E o \in BOOLEAN, c \in Coordinates \cup {NoPosition}, i \in BOOLEAN,
          w \in WaypointLists :
        LET m == NewMapView(o, c, i, w) IN
        mapView = resetBoundaries(FlyToEffect([m EXCEPT !.mapRef = MapIsRendered(m)]))
    /\ CardIdle
    /\ DraftIdle
    /\ RevealIdle
    /\ PolicyIdle
    /\ EditIdle

\* The events of a mounted MapView.
MapNext ==
    \/ ScreenFocus
    \/ ScreenBlur
    \/ \E o \in BOOLEAN : NetworkChange(o)
    \/ \E w \in WaypointLists : SetWaypoints(w)
    \/ \E c \in Coordinates : LocationSuccess(c)
    \/ LocationError
    \/ onDrag
    \/ onDragEnd
    \/ \E d \in BOOLEAN : centerMap(d)
    \/ FadeCallback
    \/ Resize

MapSpec == MapInit /\ [][MapNext]_vars

\* ------------------------------------------------------- claims on Card.ts

\* The patches of request i applied in the given phase, counted from the log.
Applied(i, phase) ==
    Cardinality({k \in 1..Len(log) : log[k].id = i /\ log[k].phase = phase})

Resolved(i) == i <= Len(requests) /\ requests[i].status = "resolved"
Done(i) == i <= Len(requests) /\ requests[i].status = "done"

\* Once a request is resolved and its resolution handled, every patch of the set
\* that matches the outcome has been applied once and no patch of the other set;
\* before that, no patch of either set has been applied.
ExactlyOneResolutionSet ==
    \A i \in 1..Len(requests) :
        LET r == requests[i]
            s == Applied(i, "success")
            f == Applied(i, "failure")
        IN  IF r.status = "done"
            THEN /\ r.outcome = "success" =>
                        s >= 1 /\ s = Len(r.onyxData.successData) /\ f = 0
                 /\ r.outcome = "failure" =>
                        f >= 1 /\ f = Len(r.onyxData.failureData) /\ s = 0
            ELSE s = 0 /\ f = 0

\* C1: for every mutation dispatched through API.write, once the Command Queue
\* resolves the request exactly one of its successData and failureData patch sets
\* is applied to the store (never both, never neither), and a resolved request's
\* set is eventually applied.
C1_ExactlyOneOfSuccessFailure ==
    /\ []ExactlyOneResolutionSet
    /\ \A i \in 1..MaxRequests : Resolved(i) ~> Done(i)

\* Both outcomes have happened: one request ended with its successData applied,
\* another with its failureData applied.
C1_Witness ==
    \E i, j \in 1..Len(requests) :
        /\ Done(i) /\ requests[i].outcome = "success" /\ Applied(i, "success") = 1
        /\ Done(j) /\ requests[j].outcome = "failure" /\ Applied(j, "failure") = 1

\* The positions in the log of the patches of request i applied in the phase.
Positions(i, phase) == {k \in 1..Len(log) : log[k].id = i /\ log[k].phase = phase}

\* C2: the optimisticData patches of every mutation are applied in the dispatching
\* step (a request is never on the queue without them), exactly once whatever the
\* outcome, and before any success or failure patch of that mutation.
C2_OptimisticOnceAndFirst ==
    \A i \in 1..Len(requests) :
        /\ Applied(i, "optimistic") = Len(requests[i].onyxData.optimisticData)
        /\ Applied(i, "optimistic") >= 1
        /\ \A k \in Positions(i, "optimistic") :
            \A m \in Positions(i, "success") \cup Positions(i, "failure") : k < m

\* A request has failed and another has succeeded, each with its optimistic patch
\* applied before its resolution patch.
C2_Witness ==
    \E i, j \in 1..Len(requests) :
        /\ Done(i) /\ requests[i].outcome = "failure"
        /\ Done(j) /\ requests[j].outcome = "success"
        /\ Applied(i, "optimistic") = 1 /\ Applied(j, "optimistic") = 1

\* The patch sets of every Card mutation.
CardMutationData ==
    {ReportVirtualExpensifyCardFraudData, RequestReplacementExpensifyCardData}
        \cup {ActivatePhysicalExpensifyCardData(c) : c \in CardIDs}

\* C3: for every Card mutation and every store state, applying its optimisticData
\* twice in sequence yields the same store as applying it once.
C3_OptimisticIdempotent ==
    \A d \in CardMutationData :
        ApplyPatches(ApplyPatches(store, d.optimisticData), d.optimisticData)
            = ApplyPatches(store, d.optimisticData)

\* A store on which the optimistic patch of the activation is not a no-op (the card
\* carries errors and is not loading), reached after a mutation was dispatched.
C3_Witness ==
    /\ log # <<>>
    /\ \E c \in CardIDs :
        LET d == ActivatePhysicalExpensifyCardData(c) IN
        /\ "errors" \in DOMAIN store[CARD_LIST].o[c].o
        /\ ApplyPatches(store, d.optimisticData) # store

\* ------------------------------- claims on ReportActionItemMessageEdit.js

\* publishDraft is called with a draft that passes the length check and is not
\* empty after trimming: the commit goes through.
Commits == Trim(draft) # <<>> /\ GetCommentLength(draft) <= MAX_COMMENT_LENGTH

\* C4: a commit attempted while the draft is empty after trimming opens the delete
\* confirmation, dispatches no editReportComment, and leaves the draft in the
\* Editing state: the component stays mounted, and the text and the persisted draft
\* are not cleared.
C4_EmptyCommitOpensDeleteModal ==
    [][(PublishDraft /\ Trim(draft) = <<>>) =>
        /\ deleteModal'
        /\ HasCall(calls', "showDeleteModal")
        /\ ~HasCall(calls', "editReportComment")
        /\ ~HasCall(calls', "saveReportActionDraft")
        /\ UNCHANGED <<draft, draftMessage, html, mounted>>]_vars

\* The draft was emptied and a commit attempted: the delete modal is open over the
\* still mounted edit, whose persisted draft is still there.
C4_Witness ==
    /\ deleteModal
    /\ mounted
    /\ Trim(draft) = <<>>
    /\ draftMessage # <<>>
    /\ calls[1] = Call("publishDraft", draft)
    /\ HasCall(calls, "showDeleteModal")

\* C5: after deleteDraft the persisted draft of the report action is empty and no
\* save of the component is left scheduled, the discard dispatched no
\* editReportComment, and the report action's message is unchanged.
C5_DiscardClearsDraftOnly ==
    [][DeleteDraft =>
        /\ draftMessage' = <<>>
        /\ pending' = None
        /\ ~HasCall(calls', "editReportComment")
        /\ UNCHANGED <<html, messageDeleted>>]_vars

\* A draft that differed from the message, with a save still scheduled, was
\* discarded.
C5_Witness ==
    /\ calls # <<>>
    /\ calls[1].f = "deleteDraft"
    /\ calls[1].arg # Trim(HtmlToMarkdown(html))
    /\ \E c \in 1..Len(calls) : calls[c].f = "cancel" /\ calls[c].arg # None
    /\ draftMessage = <<>>
    /\ html = InitHtml

\* C6, as the claim has it: an updateDraft call made while the save of an earlier
\* call for the same report action is still scheduled leaves exactly one save
\* scheduled, and it carries the content of this second call.
C6_OneWriteWithSecondContent ==
    [][\A t \in Texts :
        (UpdateDraft(t) /\ (pending # None \/ orphans # <<>>)) =>
            /\ pending' = Scheduled(t)
            /\ orphans' = <<>>]_vars

\* C6, amended: an updateDraft call made on a mounted edit component while the save
\* of its earlier call is still scheduled writes nothing and leaves that component
\* exactly one scheduled save, carrying the escaped text of the second call, or the
\* message's HTML when that text is empty after trimming; and when the component's
\* timer fires, exactly one draft write is made, with that content.
C6_DebounceKeepsLastCall ==
    [][/\ \A t \in Texts :
            (UpdateDraft(t) /\ pending # None) =>
                /\ pending' = Scheduled(IF Len(Trim(t)) > 0 THEN Escape(t) ELSE html)
                /\ ~HasCall(calls', "saveReportActionDraft")
                /\ UNCHANGED <<draftMessage, orphans>>
       /\ (DebounceTimerFires /\ orphans = <<>>) =>
                /\ draftMessage' = pending[1]
                /\ pending' = None
                /\ CallsOf(calls', "saveReportActionDraft")
                        = <<Call("saveReportActionDraft", pending[1])>>]_vars

\* A second updateDraft call superseded the save of the first; its own save is
\* scheduled, with an escaped text, and nothing of the two has been written yet.
C6_Witness ==
    /\ Len(calls) = 2
    /\ calls[1].f = "updateDraft"
    /\ calls[2].f = "clearTimeout"
    /\ pending = Scheduled(Escape(draft))
    /\ Escape(draft) # draft
    /\ draftMessage = html

\* C7: no draft write that was scheduled before deleteDraft or publishDraft ran is
\* persisted after it. The persisted draft is empty only once deleteDraft or
\* publishDraft has emptied it, and every timer was started while it was not: a
\* timer that fires on an empty persisted draft delivers a superseded write.
C7_NoStaleWriteDelivered ==
    [][DebounceTimerFires => draftMessage # <<>>]_vars

\* C8: a commit of a draft that is within the maximum comment length and not empty
\* after trimming dispatches exactly one editReportComment, with the trimmed draft,
\* and clears the draft, so that the message leaves edit mode; and the message
\* changes only in a step that dispatches editReportComment.
C8_CommitDispatchesOneTrimmedEdit ==
    [][/\ (PublishDraft /\ Commits) =>
            /\ CallsOf(calls', "editReportComment")
                    = <<Call("editReportComment", Trim(draft))>>
            /\ html' = ParseMarkdown(Trim(draft))
            /\ draftMessage' = <<>>
            /\ ~mounted'
       /\ html' # html => HasCall(calls', "editReportComment")]_vars

\* A draft with blanks around its text was committed: the message now holds the
\* trimmed text and the edit is closed.
C8_Witness ==
    /\ calls # <<>>
    /\ calls[1].f = "publishDraft"
    /\ calls[1].arg # Trim(calls[1].arg)
    /\ HasCall(calls, "editReportComment")
    /\ html = ParseMarkdown(Trim(calls[1].arg))
    /\ html # InitHtml
    /\ draftMessage = <<>>
    /\ ~mounted

\* C9, as the claim has it: a commit writes the content of the scheduled save to
\* the store.
C9_CommitFlushesPending ==
    [][(PublishDraft /\ Commits /\ pending # None) =>
        HasCall(calls', "saveReportActionDraft")
        /\ \E k \in 1..Len(calls') :
                calls'[k] = Call("saveReportActionDraft", pending[1])]_vars

\* C9, amended: a commit cancels the scheduled save (its content is dropped, never
\* written to the store), then dispatches editReportComment, then clears the draft.
C9_CommitCancelsPending ==
    [][(PublishDraft /\ Commits /\ pending # None) =>
        /\ calls' = <<Call("publishDraft", draft), Call("cancel", pending),
                      Call("editReportComment", Trim(draft)), Call("cancel", None),
                      Call("saveReportActionDraft", <<>>),
                      Call("setShouldShowComposeInput", <<>>), Call("focus", <<>>)>>
        /\ pending' = None
        /\ draftMessage' = <<>>]_vars

\* A commit was made while a save was scheduled: the save was cancelled.
C9_Witness ==
    /\ Len(calls) >= 3
    /\ calls[1].f = "publishDraft"
    /\ calls[2].f = "cancel"
    /\ calls[2].arg # None
    /\ calls[3].f = "editReportComment"
    /\ draftMessage = <<>>

\* C10: a commit attempted while the draft's comment length exceeds the maximum
\* makes no call and changes nothing: the store, the draft, its scheduled save and
\* its persisted copy are as before.
C10_TooLongCommitChangesNothing ==
    [][(PublishDraft /\ GetCommentLength(draft) > MAX_COMMENT_LENGTH) =>
        /\ calls' = <<Call("publishDraft", draft)>>
        /\ UNCHANGED <<store, requests, log, draft, pending, orphans, draftMessage, html,
                       messageDeleted, mounted, isFocused, shouldShowComposeInput,
                       deleteModal>>]_vars

\* A commit was attempted on a draft that is too long, with a save scheduled: the
\* edit is still open with its draft.
C10_Witness ==
    /\ calls = <<Call("publishDraft", draft)>>
    /\ GetCommentLength(draft) > MAX_COMMENT_LENGTH
    /\ mounted
    /\ pending # None
    /\ draftMessage # <<>>

C12_DraftLifecycle ==
    [][/\ (draftMessage # <<>> /\ draftMessage' = <<>>) =>
            (DeleteDraft \/ ConfirmDeleteModal \/ (PublishDraft /\ Commits))
       /\ (DeleteDraft \/ ConfirmDeleteModal \/ (PublishDraft /\ Commits)) =>
            draftMessage' = <<>>
       /\ (DeleteDraft \/ ConfirmDeleteModal \/ PublishDraft) =>
            draftMessage # <<>>]_vars

\* The draft went through Editing and reached Empty by the confirmed delete modal,
\* after a commit of an empty text was refused.
C12_Witness ==
    /\ calls # <<>>
    /\ calls[1].f = "confirmDelete"
    /\ Trim(calls[1].arg) = <<>>
    /\ messageDeleted
    /\ draftMessage = <<>>
    /\ ~mounted

\* The step that applies the resolution patches of a request of the command that
\* ended with the outcome.
Resolving(command, outcome) ==
    /\ ApplyResolution
    /\ requests[HeadRequest].command = command
    /\ requests[HeadRequest].outcome = outcome

\* C13, as the claim has it: when a RequestReplacementExpensifyCard request has
\* failed and its failure is handled, the card's entry at the CARD_LIST key shows
\* isLoading false, and the rest of the card list is as before.
C13_FailureShowsOnCardList ==
    [][Resolving("RequestReplacementExpensifyCard", "failure") =>
        LET c == requests[HeadRequest].params.cardId
            card == store'[CARD_LIST].o[c].o
        IN  /\ "isLoading" \in DOMAIN card
            /\ card.isLoading = Bool(FALSE)
            /\ card.state = store[CARD_LIST].o[c].o.state]_vars

\* C13, amended: when a RequestReplacementExpensifyCard request has failed, the step
\* that handles the failure leaves the entry at the REPORT_PHYSICAL_CARD_FORM key
\* showing isLoading false and leaves the value at the CARD_LIST key (the status of
\* every card included) unchanged.
C13_FailureClearsFormLoading ==
    [][Resolving("RequestReplacementExpensifyCard", "failure") =>
        /\ store'[REPORT_PHYSICAL_CARD_FORM].t = "obj"
        /\ "isLoading" \in DOMAIN store'[REPORT_PHYSICAL_CARD_FORM].o
        /\ store'[REPORT_PHYSICAL_CARD_FORM].o.isLoading = Bool(FALSE)
        /\ store'[CARD_LIST] = store[CARD_LIST]
        /\ store'[REPORT_VIRTUAL_CARD_FRAUD] = store[REPORT_VIRTUAL_CARD_FRAUD]]_vars

\* A replacement request has failed and its failure was handled: the form shows
\* isLoading false, and the card's entry in the card list has no isLoading field.
C13_Witness ==
    \E i \in 1..Len(requests) :
        /\ requests[i].command = "RequestReplacementExpensifyCard"
        /\ Done(i) /\ requests[i].outcome = "failure"
        /\ store[REPORT_PHYSICAL_CARD_FORM] = Obj([isLoading |-> Bool(FALSE)])
        /\ "isLoading" \notin DOMAIN store[CARD_LIST].o[requests[i].params.cardId].o

\* The entry a request's patches are about, in the store st: the card's entry of the
\* card list for an activation, the form for the other two mutations.
AffectedEntry(st, r) ==
    IF r.command = "ActivatePhysicalExpensifyCard"
    THEN st[CARD_LIST].o[r.params.cardID]
    ELSE st[r.onyxData.failureData[1].key]

\* C14: when a mutation has failed and its failure is handled, the affected entry
\* carries no pendingAction and carries an errors field, holding the message to
\* display.
C14_FailureAttachesError ==
    [][(ApplyResolution /\ requests[HeadRequest].outcome = "failure") =>
        LET e == AffectedEntry(store', requests[HeadRequest])
        IN  /\ e.t = "obj"
            /\ "pendingAction" \notin DOMAIN e.o
            /\ "errors" \in DOMAIN e.o]_vars

\* ------------------------------------- claims on revealVirtualCardDetails

\* C15: a promise of revealVirtualCardDetails is fulfilled only with a response
\* whose jsonCode is SUCCESS; when the response has another jsonCode or none it is
\* rejected with the very value it is rejected with when the request fails; and
\* once its request has ended, resolve or reject has been called exactly once.
C15_NonSuccessIsFailure ==
    /\ [](\A i \in 1..Len(reveals) :
            LET p == reveals[i] IN
            /\ p.status = "fulfilled" =>
                    p.value.kind = "response" /\ JsonCodeOf(p.value) = SUCCESS
            /\ p.status = "rejected" => p.value = CardDetailsLoadingFailure
            /\ p.request = "inflight" => p.status = "pending" /\ p.settles = 0
            /\ p.request # "inflight" => p.status # "pending" /\ p.settles = 1)
    /\ [][\A i \in 1..Len(reveals) : \A r \in Responses :
            /\ (RequestThen(i, r) /\ JsonCodeOf(r) = SUCCESS) =>
                    reveals'[i].status = "fulfilled" /\ reveals'[i].value = r
            /\ (RequestThen(i, r) /\ JsonCodeOf(r) # SUCCESS) =>
                    reveals'[i].status = "rejected"
                    /\ reveals'[i].value = Reject(reveals[i], CardDetailsLoadingFailure).value]_vars

\* One promise was rejected on a response that is not a success, another on a
\* failed request: both carry the same value.
C15_Witness ==
    \E i, j \in 1..Len(reveals) :
        /\ reveals[i].request = "done" /\ reveals[i].status = "rejected"
        /\ reveals[j].request = "failed" /\ reveals[j].status = "rejected"
        /\ reveals[i].value = reveals[j].value

\* C16: no step of revealVirtualCardDetails (the call, the handling of a response
\* that is a success or not, the handling of a failed request) changes the value
\* of any store key: the card details are only in the value of the promise.
C16_DetailsNotPersisted ==
    [][(\/ \E c \in CardIDs : revealVirtualCardDetails(c)
        \/ \E i \in 1..Len(reveals), r \in Responses : RequestThen(i, r)
        \/ \E i \in 1..Len(reveals) : RequestCatch(i)) =>
            \A k \in StoreKeys : store'[k] = store[k]]_vars

\* A promise was fulfilled with card details, another was rejected on a response
\* that is not a success and a request had failed before it, and the store is one
\* of the starting stores.
C16_Witness ==
    /\ store \in InitStores
    /\ \E i, j \in 1..Len(reveals) :
        /\ reveals[i].status = "fulfilled"
        /\ reveals[i].value.details \in CardDetails
        /\ reveals[j].status = "rejected"

\* ------------------------------------------- claims on the order of patches

\* The positions in the log of the patches request i applied to the key: its
\* optimistic ones, or its resolution (success or failure) ones.
KeyPositions(i, key, optimistic) ==
    {k \in 1..Len(log) :
        /\ log[k].id = i
        /\ log[k].key = key
        /\ (log[k].phase = "optimistic") = optimistic}

\* C17: for two mutations that patch the same store key, the one dispatched first
\* has its optimistic patches applied before those of the second, and its
\* resolution patches applied before those of the second: in particular for two
\* activatePhysicalExpensifyCard calls, on CARD_LIST.
C17_FifoPerKey ==
    \A i, j \in 1..Len(requests) : \A key \in StoreKeys : \A o \in BOOLEAN :
        i < j =>
            /\ \A k \in KeyPositions(i, key, o), m \in KeyPositions(j, key, o) : k < m
            /\ (KeyPositions(j, key, o) # {} /\ KeyPositions(i, key, TRUE) # {}) =>
                    KeyPositions(i, key, o) # {}

\* Two activations of the same card were dispatched and both have ended, the first
\* by a failure and the second by a success: four patches were applied to CARD_LIST.
C17_Witness ==
    /\ Len(requests) = 2
    /\ \A i \in 1..2 : requests[i].command = "ActivatePhysicalExpensifyCard" /\ Done(i)
    /\ requests[1].params.cardID = requests[2].params.cardID
    /\ requests[1].outcome = "failure"
    /\ requests[2].outcome = "success"
    /\ Len(log) = 4

\* ---------------------------------------------------- claims on the merge

\* C18: merging {a: 1} and then {b: 2} into any value of the store leaves an object
\* that holds a: 1 and b: 2 (exactly these two when the key held nothing) and every
\* other member it held; and a merge into CARD_LIST for one cardID, by
\* clearCardListErrors or by the optimistic patch of an activation, leaves the
\* fields of that card the patch does not name, and the entries of the other cards,
\* as they were.
C18_MergeUnionsKeys ==
    /\ [](\A key \in StoreKeys :
            LET a == Obj([a |-> Num(1)])
                b == Obj([b |-> Num(2)])
                got == Merge(Merge(store[key], a), b)
            IN  /\ got.t = "obj"
                /\ got.o.a = Num(1) /\ got.o.b = Num(2)
                /\ store[key] = Null => got = Obj([a |-> Num(1), b |-> Num(2)])
                /\ store[key].t = "obj" =>
                        /\ DOMAIN got.o = DOMAIN store[key].o \cup {"a", "b"}
                        /\ \A f \in DOMAIN store[key].o : got.o[f] = store[key].o[f])
    /\ [][\A c \in CardIDs :
            (clearCardListErrors(c)
                \/ \E d \in LastFourDigits : activatePhysicalExpensifyCard(d, c)) =>
                LET old == store[CARD_LIST].o
                    new == store'[CARD_LIST].o
                IN  /\ DOMAIN new = DOMAIN old
                    /\ \A other \in DOMAIN old \ {c} : new[other] = old[other]
                    /\ \A f \in DOMAIN old[c].o \ {"errors", "isLoading"} :
                            f \in DOMAIN new[c].o /\ new[c].o[f] = old[c].o[f]]_vars

\* The errors of one card were cleared: the card keeps its state, and the other
\* card keeps its errors.
C18_Witness ==
    \E c, other \in CardIDs :
        /\ c # other
        /\ DOMAIN store[CARD_LIST].o[c].o = {"isLoading", "state"}
        /\ store[CARD_LIST].o[c].o.isLoading = Bool(FALSE)
        /\ store[CARD_LIST].o[c].o.state = Str("NOT_ACTIVATED")
        /\ "errors" \in DOMAIN store[CARD_LIST].o[other].o
        /\ requests = <<>>

\* ------------------------------------ claims on WorkspaceMoreFeaturesPage.tsx

\* The request whose optimistic patch was the last to set the pending action of the
\* feature.
LastSetter(feature) ==
    CHOOSE i \in 1..Len(policyRequests) :
        /\ policyRequests[i].feature = feature
        /\ \A j \in (i + 1)..Len(policyRequests) : policyRequests[j].feature # feature

C20_EditsOnTemporaryCopy ==
    [][/\ \A t \in Originals :
            transactions'[t] # transactions[t] =>
                /\ saveTransaction
                /\ t = transactionID
                /\ transactions'[t] = transactions[transactionToEdit]
       /\ \A i \in 1..Len(distanceUpdates') :
            /\ distanceUpdates'[i].transactionID \in Originals
            /\ ~distanceUpdates'[i].transactionID.temporary
       /\ transactionID # NoTransaction =>
            /\ transactionToEdit.temporary
            /\ transactionToEdit \in DOMAIN transactions]_vars

\* The page has saved edited waypoints to the transaction it was opened on, and the
\* temporary copy has since been edited again while the saved transaction kept
\* the saved waypoints.
C20_Witness ==
    /\ transactionID # NoTransaction
    /\ Len(distanceUpdates) = 1
    /\ distanceUpdates[1].transactionID = transactionID
    /\ transactions[transactionID] = distanceUpdates[1].waypoints
    /\ transactions[transactionToEdit] # transactions[transactionID]

\* C21: once the distance-edit page is unmounted, after a save or without one, no
\* temporary transaction is left in the collection: every temporary transaction
\* the page made, one per render, has been removed.
C21_NoTemporaryLeftAfterUnmount ==
    transactionID = NoTransaction =>
        /\ \A id \in DOMAIN transactions : ~id.temporary
        /\ DOMAIN transactions = Originals

\* The page has rendered more than once, has saved, and is unmounted.
C21_Witness ==
    /\ transactionID = NoTransaction
    /\ temporaries >= 2
    /\ distanceUpdates # <<>>

\* ------------------------------------- further claims on the message edit

\* C22: typing never persists an empty draft. Every call of updateDraft schedules a
\* save that is not empty, and for a text that is empty after trimming it schedules
\* the HTML of the message; a debounce timer that fires saves a draft that is not
\* empty; and the persisted draft becomes empty only in a step that runs
\* deleteDraft's save of the empty string.
C22_TypingNeverPersistsEmpty ==
    [][/\ (\E t \in Texts : UpdateDraft(t)) =>
            /\ pending' # None
            /\ pending'[1] # <<>>
            /\ Trim(draft') = <<>> => pending'[1] = html
       /\ DebounceTimerFires => draftMessage' # <<>>
       /\ (draftMessage # <<>> /\ draftMessage' = <<>>) =>
            /\ HasCall(calls', "saveReportActionDraft")
            /\ HasCall(calls', "cancel")
            /\ ~HasCall(calls', "debouncedSaveDraft")
            /\ ~HasCall(calls', "updateDraft")]_vars

\* A blank was typed over the message, the debounce timer has fired, and the
\* persisted draft is the HTML of the message.
C22_Witness ==
    /\ mounted
    /\ draft = <<" ">>
    /\ pending = None
    /\ Len(calls) = 2
    /\ calls[1].f = "debouncedSaveDraft"
    /\ calls[2] = Call("saveReportActionDraft", html)
    /\ draftMessage = html
    /\ html # <<>>

\* C24: when the edit component is unmounted, the main composer is shown if the edit
\* input was focused at that time, and its visibility is left as it was, shown or
\* hidden, if the edit input was not focused.
C24_UnmountShowsComposerIffFocused ==
    [][Unmount =>
        IF isFocused
        THEN shouldShowComposeInput'
        ELSE shouldShowComposeInput' = shouldShowComposeInput]_vars

\* An edit that had lost the focus to one of its own buttons, the main composer
\* hidden, was unmounted: the main composer is still hidden.
C24_Witness ==
    /\ ~mounted
    /\ ~isFocused
    /\ ~shouldShowComposeInput
    /\ draftMessage # <<>>

\* ------------------------------ further claims on WorkspaceMoreFeaturesPage

\* What a toggle of the feature does when it only opens a warning modal: no request
\* is dispatched and the policy is as it was.
OnlyOpens(modalOpenAfter) ==
    /\ modalOpenAfter
    /\ policyRequests' = policyRequests
    /\ policy' = policy

\* What a toggle of the feature does when it dispatches the enable action of the
\* feature with the requested value.
Dispatches(feature, isEnabled) ==
    /\ Len(policyRequests') = Len(policyRequests) + 1
    /\ SubSeq(policyRequests', 1, Len(policyRequests)) = policyRequests
    /\ policyRequests'[Len(policyRequests')].feature = feature
    /\ policyRequests'[Len(policyRequests')].isEnabled = isEnabled
    /\ policy'.isActive[feature] = isEnabled

\* C23: while the policy has connections enabled and a connection set up, a toggle
\* of categories, tags, taxes or connections dispatches nothing and opens its
\* warning modal (the organize one for categories, tags and taxes, the integrate
\* one for connections), the other modal staying as it was; otherwise the toggle
\* dispatches the enable action of its feature with the requested value and both
\* modals stay as they were.
C23_ConnectionGuardsToggles ==
    [][/\ \A f \in OrganizeFeatures, e \in BOOLEAN : OrganizeItemAction(f, e) =>
            IF policy.isActive["areConnectionsEnabled"] /\ policy.connections
            THEN /\ OnlyOpens(isOrganizeWarningModalOpen')
                 /\ UNCHANGED isIntegrateWarningModalOpen
            ELSE /\ Dispatches(f, e)
                 /\ UNCHANGED <<isOrganizeWarningModalOpen, isIntegrateWarningModalOpen>>
       /\ \A f \in IntegrateFeatures, e \in BOOLEAN : IntegrateItemAction(f, e) =>
            IF policy.isActive["areConnectionsEnabled"] /\ policy.connections
            THEN /\ OnlyOpens(isIntegrateWarningModalOpen')
                 /\ UNCHANGED isOrganizeWarningModalOpen
            ELSE /\ Dispatches(f, e)
                 /\ UNCHANGED <<isOrganizeWarningModalOpen, isIntegrateWarningModalOpen>>]_vars

\* With connections enabled but none set up, a toggle of an organize feature was
\* dispatched and no modal is open.
C23_Witness ==
    /\ policy.isActive["areConnectionsEnabled"]
    /\ ~policy.connections
    /\ Len(policyRequests) = 1
    /\ policyRequests[1].feature \in OrganizeFeatures
    /\ ~isOrganizeWarningModalOpen
    /\ ~isIntegrateWarningModalOpen

\* ------------------------------------------------------- claims on MapView

\* C25: the initialisation of the current position (the request of the device's
\* location, or the fallback to the initial state) runs at most once over the
\* focus events and network changes of a mounted MapView; it runs only in a step
\* that leaves the screen focused and the device online; and it has run whenever
\* the screen is focused and the device is online, so a focus or a reconnection
\* after focuses that all happened offline still runs it.
C25_InitializesOnceOnline ==
    [][/\ mapView'.initializations <= 1
       /\ mapView'.initializations # mapView.initializations =>
            /\ ~mapView'.isOffline
            /\ mapView'.isFocused
            /\ ~mapView'.shouldInitializeCurrentPosition
       /\ (mapView'.isFocused /\ ~mapView'.isOffline) => mapView'.initializations = 1]_vars

\* The focus effect has returned for being offline before, and the step just taken
\* ran the initialisation, which asked for the device's location.
C25_Witness ==
    /\ mapView.skippedOffline
    /\ mapView.initializations = 1
    /\ mapView.isFocused
    /\ ~mapView.isOffline
    /\ HasCall(mapView.calls, "getCurrentPosition")

\* A call in cs that flies the map to the current position at the default zoom: the
\* automatic pan.
PansToCurrentPosition(cs) ==
    \E k \in 1..Len(cs) : cs[k].f = "flyTo" /\ cs[k].arg.zoom = DEFAULT_ZOOM

\* C26: the map is panned automatically to the current position only in a step that
\* ends with no drag made and no waypoints; userInteractedWithMap, once true, stays
\* true; and after a drag no change of the current position pans the map.
C26_NoAutomaticPanAfterDrag ==
    [][/\ PansToCurrentPosition(mapView'.calls) =>
            /\ ~mapView'.userInteractedWithMap
            /\ mapView'.waypoints = <<>>
            /\ mapView'.mapRef
            /\ mapView'.calls[Len(mapView'.calls)].arg.center = mapView'.currentPosition
       /\ mapView.userInteractedWithMap => mapView'.userInteractedWithMap
       /\ (mapView.userInteractedWithMap
                /\ mapView'.currentPosition # mapView.currentPosition) =>
            ~PansToCurrentPosition(mapView'.calls)]_vars

\* After a drag, with no waypoints and the map shown, the device's location arrived
\* and became the current position, and the map was not panned.
C26_Witness ==
    /\ mapView.userInteractedWithMap
    /\ mapView.waypoints = <<>>
    /\ mapView.mapRef
    /\ HasCall(mapView.calls, "setUserLocation")
    /\ ~HasCall(mapView.calls, "flyTo")

\* What resetBoundaries does in the step, after the calls in prefix: nothing with no
\* waypoints; a flight to the only waypoint, the center button toggled on exactly
\* when the current position is not that waypoint; the bounds fitted and the center
\* button toggled off with two waypoints or more.
ResetBoundariesActs(prefix) ==
    LET w == mapView.waypoints IN
    IF Len(w) = 0
    THEN /\ mapView'.calls = prefix
         /\ mapView'.centerButtonToggle = mapView.centerButtonToggle
         /\ mapView'.shouldDisplayCenterButton = mapView.shouldDisplayCenterButton
    ELSE IF Len(w) = 1
    THEN /\ mapView'.calls = prefix \o <<FlyTo(w[1], SINGLE_MARKER_ZOOM, FALSE)>>
         /\ mapView'.centerButtonToggle =
                IF mapView.currentPosition # w[1] THEN "on" ELSE "off"
    ELSE /\ mapView'.calls = prefix \o <<FitBounds(w, FALSE)>>
         /\ mapView'.centerButtonToggle = "off"

\* The center button is as the last toggle left it: displayed after it was toggled
\* on, and not displayed after it was toggled off and the fade-out has ended.
CenterButtonFollowsToggle(m) ==
    /\ m.centerButtonToggle = "on" => m.shouldDisplayCenterButton
    /\ (m.centerButtonToggle = "off" /\ m.fadeCallbacks = 0) =>
            ~m.shouldDisplayCenterButton

\* C27: resetBoundaries does nothing without waypoints or without a map reference;
\* with one waypoint it flies to it and shows the center button exactly when the
\* current position differs from it; with two or more it fits the bounds and hides
\* the center button. The center button is shown after every drag end and hidden
\* after every centerMap: it is displayed as long as the last toggle was on, and
\* not displayed once the fade-out of a toggle off has ended.
C27_CenterButtonAndBoundaries ==
    [][/\ Resize => ResetBoundariesActs(<<Call("resize", <<>>)>>)
       /\ ~mapView'.mapRef =>
            /\ ~HasCall(mapView'.calls, "flyTo")
            /\ ~HasCall(mapView'.calls, "fitBounds")
            /\ mapView'.centerButtonToggle = mapView.centerButtonToggle
       /\ onDragEnd => mapView'.centerButtonToggle = "on"
       /\ (\E d \in BOOLEAN : centerMap(d)) => mapView'.centerButtonToggle = "off"
       /\ CenterButtonFollowsToggle(mapView')]_vars

====
